---- MODULE Spec2Model ----
(***************************************************************************)
(* Model of spider-sense/OffsetGuided:                                     *)
(*   src/config/coco_data_copy.py  the COCO keypoint / skeleton tables     *)
(*   src/models/networks.py        load_model, save_model,                 *)
(*                                 initialize_weights, basenet_factory     *)
(*                                                                         *)
(* Python strings are modelled as sequences of one-character strings so    *)
(* that startswith, the substring test `in` and the slice k[7:] are        *)
(* computed character by character, as Python computes them.               *)
(***************************************************************************)
EXTENDS Integers, Sequences, FiniteSets, TLC

(***************************************************************************)
(* Python string primitives                                                *)
(***************************************************************************)

\* s.startswith(p)
startswith(s, p) == Len(s) >= Len(p) /\ SubSeq(s, 1, Len(p)) = p

\* sub in s  (substring test)
contains(sub, s) ==
    \E i \in 1..(Len(s) - Len(sub) + 1) : SubSeq(s, i, i + Len(sub) - 1) = sub

\* s[n:]
slice_from(s, n) == SubSeq(s, n + 1, Len(s))

\* the range of a sequence
Range(s) == {s[i] : i \in 1..Len(s)}

(***************************************************************************)
(* src/config/coco_data_copy.py : the static tables.  Python indexes from  *)
(* 0; table position i of the source is position i + 1 of the sequence.    *)
(***************************************************************************)

\* A faulty variant of COCO_PERSON_SKELETON: the edges as the COCO annotation
\* files number them, from 1.  C4 must not survive it.
COCO_PERSON_SKELETON_from_one == <<
    <<1, 2>>, <<1, 3>>, <<2, 3>>, <<2, 4>>, <<3, 5>>, <<6, 7>>, <<5, 7>>, <<4, 6>>,
    <<6, 8>>, <<8, 10>>, <<7, 9>>, <<9, 11>>, <<6, 12>>, <<7, 13>>, <<12, 13>>, <<12, 14>>,
    <<14, 16>>, <<13, 15>>, <<15, 17>> >>

COCO_PERSON_SKELETON == <<
    <<0, 1>>, <<0, 2>>, <<1, 2>>, <<1, 3>>, <<2, 4>>, <<5, 6>>, <<4, 6>>, <<3, 5>>,
    <<5, 7>>, <<7, 9>>, <<6, 8>>, <<8, 10>>, <<5, 11>>, <<6, 12>>, <<11, 12>>, <<11, 13>>,
    <<13, 15>>, <<12, 14>>, <<14, 16>> >>

COCO_PERSON_SKELETON_DOWNUP == <<
    <<15, 13>>, <<13, 11>>, <<16, 14>>, <<14, 12>>, <<11, 12>>, <<5, 11>>, <<6, 12>>,
    <<5, 6>>, <<5, 7>>, <<6, 8>>, <<7, 9>>, <<8, 10>>, <<1, 2>>,
    <<0, 1>>, <<0, 2>>, <<1, 3>>, <<2, 4>>, <<3, 5>>, <<4, 6>> >>

COCO_PERSON_WITH_REDUNDANT_SKELETON == <<
    <<0, 1>>, <<0, 2>>, <<1, 2>>, <<1, 3>>, <<2, 4>>, <<5, 6>>, <<4, 6>>, <<3, 5>>,
    <<5, 7>>, <<7, 9>>, <<6, 8>>, <<8, 10>>, <<5, 11>>, <<6, 12>>, <<11, 12>>, <<11, 13>>,
    <<13, 15>>, <<12, 14>>, <<14, 16>>,
    <<1, 5>>, <<2, 6>>, <<5, 12>>, <<6, 11>>, <<11, 14>>, <<12, 13>>,
    <<5, 9>>, <<6, 10>>, <<11, 15>>, <<12, 16>>,
    <<5, 0>>, <<6, 0>> >>

DENSER_COCO_PERSON_SKELETON == <<
    <<0, 1>>, <<0, 2>>, <<1, 2>>, <<0, 3>>, <<0, 4>>, <<3, 4>>, <<0, 5>>, <<0, 6>>, <<1, 5>>,
    <<2, 6>>, <<1, 3>>, <<2, 4>>, <<3, 5>>, <<4, 6>>, <<5, 6>>, <<5, 11>>, <<6, 12>>, <<5, 12>>,
    <<6, 11>>, <<11, 12>>, <<5, 7>>, <<6, 8>>, <<7, 9>>, <<8, 10>>, <<5, 9>>, <<6, 10>>, <<7, 8>>,
    <<9, 10>>, <<9, 11>>, <<10, 12>>, <<9, 13>>, <<10, 14>>, <<13, 11>>, <<14, 12>>,
    <<11, 14>>, <<12, 13>>, <<11, 15>>, <<12, 16>>, <<15, 13>>, <<16, 14>>,
    <<13, 16>>, <<14, 15>>, <<13, 14>>, <<15, 16>> >>

\* [c for c in DENSER_COCO_PERSON_SKELETON if c not in COCO_PERSON_SKELETON]
NotInPersonSkeleton(c) == c \notin Range(COCO_PERSON_SKELETON)

REDUNDANT_CONNECTIONS == SelectSeq(DENSER_COCO_PERSON_SKELETON, NotInPersonSkeleton)

KINEMATIC_TREE_SKELETON == <<
    <<0, 1>>, <<1, 3>>,
    <<0, 2>>, <<2, 4>>,
    <<0, 5>>,
    <<5, 7>>, <<7, 9>>,
    <<0, 6>>,
    <<6, 8>>, <<8, 10>>,
    <<5, 11>>, <<11, 13>>, <<13, 15>>,
    <<6, 12>>, <<12, 14>>, <<14, 16>> >>

s_left  == <<"l", "e", "f", "t", "_">>
s_right == <<"r", "i", "g", "h", "t", "_">>
s_nose     == <<"n", "o", "s", "e">>
s_eye      == <<"e", "y", "e">>
s_ear      == <<"e", "a", "r">>
s_shoulder == <<"s", "h", "o", "u", "l", "d", "e", "r">>
s_elbow    == <<"e", "l", "b", "o", "w">>
s_wrist    == <<"w", "r", "i", "s", "t">>
s_hip      == <<"h", "i", "p">>
s_knee     == <<"k", "n", "e", "e">>
s_ankle    == <<"a", "n", "k", "l", "e">>

\* A faulty variant of COCO_KEYPOINTS: 'left_ear' pasted where 'right_ear'
\* belongs.  C5 must not survive it.
COCO_KEYPOINTS_pasted == <<
    s_nose,
    s_left \o s_eye,
    s_right \o s_eye,
    s_left \o s_ear,
    s_left \o s_ear,
    s_left \o s_shoulder,
    s_right \o s_shoulder,
    s_left \o s_elbow,
    s_right \o s_elbow,
    s_left \o s_wrist,
    s_right \o s_wrist,
    s_left \o s_hip,
    s_right \o s_hip,
    s_left \o s_knee,
    s_right \o s_knee,
    s_left \o s_ankle,
    s_right \o s_ankle >>

COCO_KEYPOINTS == <<
    s_nose,
    s_left \o s_eye,
    s_right \o s_eye,
    s_left \o s_ear,
    s_right \o s_ear,
    s_left \o s_shoulder,
    s_right \o s_shoulder,
    s_left \o s_elbow,
    s_right \o s_elbow,
    s_left \o s_wrist,
    s_right \o s_wrist,
    s_left \o s_hip,
    s_right \o s_hip,
    s_left \o s_knee,
    s_right \o s_knee,
    s_left \o s_ankle,
    s_right \o s_ankle >>

\* enumerate(COCO_KEYPOINTS): the indices 0, 1, ... in order
KeypointIndices == [i \in 1..Len(COCO_KEYPOINTS) |-> i - 1]

StartsWithL(i) == startswith(COCO_KEYPOINTS[i + 1], <<"l">>)

StartsWithR(i) == startswith(COCO_KEYPOINTS[i + 1], <<"r">>)

\* [i for i, v in enumerate(COCO_KEYPOINTS) if v.startswith('l')]
LEFT_INDEX == SelectSeq(KeypointIndices, StartsWithL)

\* [i for i, v in enumerate(COCO_KEYPOINTS) if v.startswith('r')]
RIGHT_INDEX == SelectSeq(KeypointIndices, StartsWithR)

\* the sigmas, in thousandths (0.026 is 26)
COCO_PERSON_SIGMAS == <<26, 25, 25, 35, 35, 79, 79, 72, 72, 62, 62, 107, 107, 87, 87, 89, 89>>

\* seq[j] raises IndexError unless -len(seq) <= j < len(seq)
IndexInRange(seq, j) == -Len(seq) <= j /\ j < Len(seq)

\* seq[j], Python indexing (a negative j counts from the end)
PyIndex(seq, j) == IF j >= 0 THEN seq[j + 1] ELSE seq[Len(seq) + j + 1]

\* print_associations: the lines printed by the loop over COCO_PERSON_SKELETON,
\* up to the first pair whose lookup in COCO_KEYPOINTS raises IndexError
RECURSIVE associations(_)
associations(skeleton) ==
    IF skeleton = <<>> THEN [printed |-> <<>>, raised |-> "none"]
    ELSE LET j1 == Head(skeleton)[1]
             j2 == Head(skeleton)[2]
         IN  IF ~(IndexInRange(COCO_KEYPOINTS, j1) /\ IndexInRange(COCO_KEYPOINTS, j2))
             THEN [printed |-> <<>>, raised |-> "IndexError"]
             ELSE LET rest == associations(Tail(skeleton))
                  IN  [printed |-> << <<PyIndex(COCO_KEYPOINTS, j1), PyIndex(COCO_KEYPOINTS, j2)>> >>
                                       \o rest.printed,
                       raised |-> rest.raised]

(***************************************************************************)
(* src/models/networks.py : bounds of the model                            *)
(***************************************************************************)

\* epochs passed to save_model and stored in checkpoints are 0..MaxEpoch
MaxEpoch == 1

\* tensor contents are abstracted to the values 0..MaxVal
MaxVal == 1

\* a checkpoint file written by another tool holds 1..MaxCkptLen entries
MaxCkptLen == 2

Vals == 0..MaxVal

\* two tensor shapes suffice to have equal and unequal shapes
Shapes == {"3x3", "1x1"}

(***************************************************************************)
(* String literals of load_model, and the parameter names of the models    *)
(***************************************************************************)

s_module            == <<"m", "o", "d", "u", "l", "e">>
s_module_list       == s_module \o <<"_", "l", "i", "s", "t">>
s_offset            == <<"o", "f", "f", "s", "e", "t">>
s_before_regression == <<"b", "e", "f", "o", "r", "e", "_",
                         "r", "e", "g", "r", "e", "s", "s", "i", "o", "n">>
s_dot_w             == <<".", "w">>
s_dot_b             == <<".", "b">>

k_basenet           == <<"b", "a", "s", "e", "n", "e", "t">> \o s_dot_w
k_offset            == s_offset \o s_dot_b
k_before_regression == s_before_regression \o s_dot_b
k_module_dict       == s_module \o <<"_", "d", "i", "c", "t">> \o s_dot_w
k_module_list       == s_module_list \o s_dot_w

\* the name torch.nn.DataParallel / DistributedDataParallel gives the
\* parameter k of the model it wraps: 'module.' + k
dp(k) == s_module \o <<".">> \o k

\* The architecture of the model: parameter name -> shape, the layer type
\* that owns the parameter and whether it is the layer's weight or bias.
Arch ==
    (k_basenet :> [shape |-> "3x3", layer |-> "BatchNorm2d", param |-> "weight"]) @@
    (k_offset :> [shape |-> "1x1", layer |-> "Conv2d", param |-> "bias"]) @@
    (k_before_regression :> [shape |-> "1x1", layer |-> "BatchNorm2d", param |-> "bias"]) @@
    (k_module_dict :> [shape |-> "3x3", layer |-> "Linear", param |-> "weight"])

\* the keys a checkpoint file written by another tool may hold: keys the
\* model has under the same name, one it has under a name without the prefix
\* 'module.', and one it lacks.  (A file with every key of the model is
\* written by save_model.)
CkptKeys == {k_basenet, k_offset, k_before_regression, k_module_list, dp(k_basenet)}

(***************************************************************************)
(* Dictionaries are functions; the insertion order of an OrderedDict is    *)
(* kept only where the code depends on it (the items of the checkpoint).   *)
(***************************************************************************)

EmptyDict == [k \in {} |-> 0]

\* d[k] = v
Put(d, k, v) == [x \in DOMAIN d \cup {k} |-> IF x = k THEN v ELSE d[x]]

\* model.state_dict(): a wrapped model names every parameter 'module.' + k
state_dict_of(params, wrapped) ==
    IF wrapped
    THEN [k \in {dp(x) : x \in DOMAIN params} |-> params[slice_from(k, 7)]]
    ELSE params

(***************************************************************************)
(* load_model, lines 41-51: convert parallel/distributed model to single   *)
(***************************************************************************)

\* A faulty variant of dropped: the test for 'offset' is forgotten.  C7 must
\* not survive it.
dropped_without_offset(k, drop_layers) ==
    contains(s_before_regression, k) /\ drop_layers

\* line 43: the entry is skipped
dropped(k, drop_layers) ==
    (contains(s_before_regression, k) \/ contains(s_offset, k)) /\ drop_layers

\* lines 45-50: the name an entry is stored under
stored_name(k) ==
    IF startswith(k, s_module) /\ ~startswith(k, s_module_list)
    THEN slice_from(k, 7)
    ELSE k

\* lines 42-51: the loop over state_dict_.items(), in order; a later entry
\* stored under the same name replaces an earlier one
RECURSIVE convert(_, _)
convert(items, drop_layers) ==
    IF items = <<>> THEN EmptyDict
    ELSE LET before == convert(SubSeq(items, 1, Len(items) - 1), drop_layers)
             e == items[Len(items)]
         IN  IF dropped(e.key, drop_layers) THEN before
             ELSE Put(before, stored_name(e.key), e.tensor)

(***************************************************************************)
(* load_model, lines 58-73                                                 *)
(***************************************************************************)

\* A faulty variant of fix_bad_params: the tensor of another shape is left
\* in the dictionary.  C2 must not survive it.
fix_bad_params_skipped(state_dict, model_state_dict) == state_dict

\* lines 58-68: a loaded tensor whose shape differs from the model's is
\* replaced by the model's own tensor
fix_bad_params(state_dict, model_state_dict) ==
    [k \in DOMAIN state_dict |->
        IF k \in DOMAIN model_state_dict
           /\ state_dict[k].shape # model_state_dict[k].shape
        THEN model_state_dict[k]
        ELSE state_dict[k]]

\* lines 69-72: the parameters the checkpoint lacks are appended
append_missing(state_dict, model_state_dict) ==
    [k \in DOMAIN state_dict \cup DOMAIN model_state_dict |->
        IF k \in DOMAIN state_dict THEN state_dict[k] ELSE model_state_dict[k]]

\* line 73: model.load_state_dict(state_dict, strict=False).  Keys the model
\* lacks are ignored; a key of the model with a tensor of another shape makes
\* torch raise RuntimeError after it has copied the tensors that fit.
load_state_dict(params, wrapped, state_dict) ==
    LET own == state_dict_of(params, wrapped)
        fits(k) == k \in DOMAIN state_dict /\ state_dict[k].shape = own[k].shape
        name(x) == IF wrapped THEN dp(x) ELSE x
    IN  [params |-> [x \in DOMAIN params |->
                        IF fits(name(x)) THEN state_dict[name(x)] ELSE params[x]],
         raised |-> IF \E k \in DOMAIN own :
                          k \in DOMAIN state_dict /\ state_dict[k].shape # own[k].shape
                    THEN "RuntimeError" ELSE "none"]

(***************************************************************************)
(* initialize_weights and basenet_factory                                  *)
(***************************************************************************)

\* initialize_weights: what the loop over model.modules() may leave in the
\* model.  normal_() draws the weight of a Conv2d or Linear layer at random;
\* a BatchNorm2d weight is filled with 1 and every bias of these layers with
\* 0; parameters of other layers keep their value.
initialize_outcomes(model) ==
    {p \in [DOMAIN Arch -> [shape : Shapes, val : Vals]] :
        \A k \in DOMAIN Arch :
            /\ p[k].shape = Arch[k].shape
            /\ CASE Arch[k].layer \in {"Conv2d", "Linear"} /\ Arch[k].param = "weight" -> TRUE
                 [] Arch[k].layer = "BatchNorm2d" /\ Arch[k].param = "weight" -> p[k].val = 1
                 [] Arch[k].layer \in {"Conv2d", "BatchNorm2d", "Linear"}
                        /\ Arch[k].param = "bias" -> p[k].val = 0
                 [] OTHER -> p[k] = model[k]}

s_hourglass       == <<"h", "o", "u", "r", "g", "l", "a", "s", "s">>
s_hourglass104    == s_hourglass \o <<"1", "0", "4">>
s_hourglass4stage == s_hourglass \o <<"4", "s", "t", "a", "g", "e">>

\* the names basenet_factory is called with
BasenetNames == {s_hourglass104, s_hourglass4stage,
                 s_hourglass104 \o <<"_", "v", "2">>}

\* basenet_factory(basenet_name): what the call returns or raises
basenet_outcome(basenet_name) ==
    IF basenet_name \notin {s_hourglass104, s_hourglass4stage}
    THEN [raised |-> "AssertionError",
          message |-> basenet_name \o <<" ", "i", "s", " ", "n", "o", "t", " ",
                       "i", "m", "p", "l", "e", "m", "e", "n", "t", "e", "d", ".">>,
          built |-> "none", ret |-> <<>>]
    ELSE IF contains(s_hourglass104, basenet_name)
    THEN [raised |-> "none", message |-> <<>>,
          built |-> "Hourglass104", ret |-> <<"Hourglass104", 2, 4, 256>>]
    ELSE \* line 179: the 'hourglass4stage' branch only sets options, and
         \* control reaches the raise of line 186
         [raised |-> "Exception",
          message |-> <<"U", "n", "k", "n", "o", "w", "n", " ", "b", "a", "s", "e", " ",
                        "n", "e", "t", "w", "o", "r", "k", " ", "i", "n", " ">> \o basenet_name,
          built |-> "none", ret |-> <<>>]

(***************************************************************************)
(* The state                                                               *)
(***************************************************************************)

VARIABLES
    params,     \* the (unwrapped) model's parameters: name -> tensor
    optimizer,  \* the state of the caller's optimizer
    disk,       \* the file system: path -> checkpoint file, or NoFile
    last        \* the last call: its arguments (for a load_model that found a
                \* file, the one that decides what is loaded), the state it
                \* found and what it returned or raised

vars == <<params, optimizer, disk, last>>

Paths == {"ckpt.pth"}

\* a path that names no file, and a file holding the data torch.save wrote
NoFile == [isfile |-> FALSE]

\* written_by records which program wrote the file
File(data, written_by) == [isfile |-> TRUE, data |-> data, written_by |-> written_by]

Losses == {"0.5"}

\* the state of an optimizer: as constructed, or as saved after training by
\* the tool that wrote the checkpoint
OptimizerStates == {"new", "trained"}

Tensors == [shape : Shapes, val : Vals]

\* the items of a state dict: sequences of entries with pairwise different
\* keys; the tensors of one file differ in content from entry to entry
ItemSeqs ==
    UNION {{s \in [1..n -> [key : CkptKeys, tensor : Tensors]] :
               /\ \A i, j \in 1..n : i # j => s[i].key # s[j].key
               /\ \A i \in 1..n : s[i].tensor.val = i % (MaxVal + 1)} : n \in 1..MaxCkptLen}

\* the data torch.save writes (save_model, lines 111-115)
checkpoint_data(epoch, train_loss, state_dict_items, optimizer_given, optimizer_state) ==
    LET data == [epoch |-> epoch, train_loss |-> train_loss,
                 model_state_dict |-> state_dict_items]
    IN  IF optimizer_given THEN data @@ [optimizer_state_dict |-> optimizer_state]
        ELSE data

\* checkpoint files written by another tool, e.g. from a DataParallel model,
\* with the state of its optimizer
ExternalCheckpoints ==
    {checkpoint_data(MaxEpoch, l, items, TRUE, "trained") :
        l \in Losses, items \in ItemSeqs}

\* the items of a model's state dict, in a fixed order of its parameters
RECURSIVE items_of(_)
items_of(sd) ==
    IF DOMAIN sd = {} THEN <<>>
    ELSE LET k == CHOOSE x \in DOMAIN sd : \A y \in DOMAIN sd : Len(x) <= Len(y)
         IN  <<[key |-> k, tensor |-> sd[k]]>>
             \o items_of([x \in DOMAIN sd \ {k} |-> sd[x]])

Init ==
    /\ params \in initialize_outcomes([k \in DOMAIN Arch |-> [shape |-> Arch[k].shape, val |-> 0]])
    /\ optimizer = "new"
    /\ disk \in [Paths -> {NoFile} \cup {File(c, "another tool") : c \in ExternalCheckpoints}]
    /\ last = [op |-> "none"]

(***************************************************************************)
(* The operations                                                          *)
(***************************************************************************)

\* os.path.isfile(ckpt_path)
isfile(path) == disk[path].isfile

\* A faulty variant of return_without_loading: the optimizer that was passed
\* in is handed back.  C1 must not survive it.
return_optimizer_without_loading(start_epoch) == <<"model", "optimizer", start_epoch>>

\* line 31: return model, None, start_epoch
return_without_loading(start_epoch) == <<"model", "None", start_epoch>>

\* lines 98-101: the optimizer is returned only when given and resumed
return_after_loading(optimizer_given, resume_optimizer, start_epoch) ==
    IF optimizer_given /\ resume_optimizer
    THEN <<"model", "optimizer", start_epoch>>
    ELSE <<"model", "None", start_epoch>>

\* lines 77-96: the optimizer and start_epoch after the resume block.  The
\* move of the resumed state to cuda (lines 85-89) changes the device that
\* holds the tensors, not their content, which is all the model keeps.
resume(checkpoint, optimizer_given, resume_optimizer, optimizer2cuda) ==
    IF optimizer_given /\ resume_optimizer /\ "optimizer_state_dict" \in DOMAIN checkpoint
    THEN [optimizer |-> checkpoint.optimizer_state_dict,
          start_epoch |-> checkpoint.epoch + 1]
    ELSE [optimizer |-> optimizer, start_epoch |-> 0]

\* load_model is handed the model itself, not a DataParallel wrapper of it
load_model(ckpt_path, optimizer_given, drop_layers, resume_optimizer, optimizer2cuda) ==
    IF ~isfile(ckpt_path)
    THEN /\ last' = [op |-> "load_model", ckpt_path |-> ckpt_path, isfile |-> FALSE,
                     optimizer_given |-> optimizer_given, drop_layers |-> drop_layers,
                     resume_optimizer |-> resume_optimizer,
                     optimizer2cuda |-> optimizer2cuda,
                     pre_params |-> params, pre_optimizer |-> optimizer,
                     raised |-> "none", ret |-> return_without_loading(0)]
         /\ UNCHANGED <<params, optimizer, disk>>
    ELSE LET checkpoint == disk[ckpt_path].data  \* torch.load
             state_dict == convert(checkpoint.model_state_dict, drop_layers)
             model_state_dict == state_dict_of(params, FALSE)
             passed == append_missing(fix_bad_params(state_dict, model_state_dict),
                                      model_state_dict)
             loaded == load_state_dict(params, FALSE, passed)
             resumed == resume(checkpoint, optimizer_given, resume_optimizer,
                               optimizer2cuda)
             call == [op |-> "load_model", ckpt_path |-> ckpt_path, isfile |-> TRUE,
                      drop_layers |-> drop_layers, pre_params |-> params,
                      state_dict |-> state_dict, passed |-> passed]
         IN  /\ params' = loaded.params
             /\ IF loaded.raised # "none"
                THEN /\ optimizer' = optimizer
                     /\ last' = call @@ [raised |-> loaded.raised, ret |-> <<>>]
                ELSE /\ optimizer' = resumed.optimizer
                     /\ last' = call @@ [raised |-> "none",
                                         ret |-> return_after_loading(optimizer_given,
                                                    resume_optimizer, resumed.start_epoch)]
             /\ UNCHANGED disk

\* lines 106-109: a wrapped model saves model.module.state_dict()
saved_state_dict(wrapped) ==
    IF wrapped
    THEN state_dict_of(params, FALSE)    \* model.module.state_dict()
    ELSE state_dict_of(params, wrapped)  \* model.state_dict()

save_model(path, epoch, train_loss, wrapped, optimizer_given) ==
    /\ disk' = [disk EXCEPT ![path] =
                   File(checkpoint_data(epoch, train_loss, items_of(saved_state_dict(wrapped)),
                                        optimizer_given, optimizer), "save_model")]
    /\ last' = [op |-> "save_model", path |-> path, epoch |-> epoch,
                optimizer_given |-> optimizer_given, pre_params |-> params]
    /\ UNCHANGED <<params, optimizer>>

initialize_weights ==
    /\ params' \in initialize_outcomes(params)
    /\ last' = [op |-> "initialize_weights"]
    /\ UNCHANGED <<optimizer, disk>>

basenet_factory(basenet_name) ==
    /\ last' = [op |-> "basenet_factory", basenet_name |-> basenet_name]
                   @@ basenet_outcome(basenet_name)
    /\ UNCHANGED <<params, optimizer, disk>>

\* the examination run of coco_data_copy.py, lines 155-157: LEFT_INDEX and
\* RIGHT_INDEX are printed and print_associations is called
main ==
    /\ last' = [op |-> "main", left_index |-> LEFT_INDEX, right_index |-> RIGHT_INDEX,
                number |-> Len(COCO_PERSON_SKELETON)] @@ associations(COCO_PERSON_SKELETON)
    /\ UNCHANGED <<params, optimizer, disk>>

Next ==
    \/ \E ckpt_path \in Paths, optimizer_given, drop_layers, resume_optimizer,
          optimizer2cuda \in BOOLEAN :
          load_model(ckpt_path, optimizer_given, drop_layers, resume_optimizer,
                     optimizer2cuda)
    \/ \E path \in Paths, epoch \in 0..MaxEpoch, train_loss \in Losses,
          wrapped, optimizer_given \in BOOLEAN :
          save_model(path, epoch, train_loss, wrapped, optimizer_given)
    \/ initialize_weights
    \/ \E basenet_name \in BasenetNames : basenet_factory(basenet_name)
    \/ main

Spec == Init /\ [][Next]_vars

(***************************************************************************)
(* The claims                                                              *)
(***************************************************************************)

\* the last call was load_model and found a checkpoint file
LoadedFile == last.op = "load_model" /\ last.isfile

\* the items of the checkpoint the last load_model read (load_model leaves
\* the file system alone)
LoadedItems == disk[last.ckpt_path].data.model_state_dict

\* the entry's original key holds 'before_regression' or 'offset'
InOutputLayer(k) == contains(s_before_regression, k) \/ contains(s_offset, k)

\* C1: when ckpt_path names no file, load_model raises nothing and returns
\* exactly (model, None, 0), whatever optimizer and flags it was given, and
\* leaves the model's parameters and the optimizer's state as they were.
C1_MissingFileReturnsModelNoneZero ==
    (last.op = "load_model" /\ ~last.isfile) =>
        /\ last.raised = "none"
        /\ last.ret = <<"model", "None", 0>>
        /\ params = last.pre_params
        /\ optimizer = last.pre_optimizer

\* C1 happens: load_model was given an optimizer and found no file
C1_Witness ==
    /\ last.op = "load_model"
    /\ ~last.isfile
    /\ last.optimizer_given
    /\ last.resume_optimizer
    /\ last.optimizer2cuda
    /\ ~last.drop_layers

\* the names that the converted checkpoint and the model share and whose
\* tensors differ in shape
Mismatched ==
    {k \in DOMAIN last.state_dict \cap DOMAIN last.pre_params :
        last.state_dict[k].shape # last.pre_params[k].shape}

\* the names that the converted checkpoint and the model share and whose
\* tensors have the same shape
Matching ==
    {k \in DOMAIN last.state_dict \cap DOMAIN last.pre_params :
        last.state_dict[k].shape = last.pre_params[k].shape}

\* C2: for every converted checkpoint key the model has with another shape,
\* load_model raises nothing, hands the model's own tensor to
\* load_state_dict under that key and leaves that parameter as it was, and
\* every other key the model has with the same shape is loaded.
C2_ShapeMismatchKeepsOwnValue ==
    LoadedFile =>
        \A k \in Mismatched :
            /\ last.raised = "none"
            /\ last.passed[k] = last.pre_params[k]
            /\ params[k] = last.pre_params[k]
            /\ \A j \in Matching : params[j] = last.state_dict[j]

\* C2 happens: one key was mismatched and kept, another was loaded and
\* changed the model
C2_Witness ==
    /\ LoadedFile
    /\ Mismatched # {}
    /\ \E j \in Matching : params[j] # last.pre_params[j]

\* C3: every checkpoint key that is not dropped and starts with 'module' but
\* not with 'module_list' is stored under the key without its prefix
\* 'module.'; every other key that is not dropped is stored under its own
\* name.
C3_ModulePrefixRemoved ==
    LoadedFile =>
        \A i \in 1..Len(LoadedItems) :
            LET k == LoadedItems[i].key
            IN  ~(InOutputLayer(k) /\ last.drop_layers) =>
                    IF startswith(k, s_module) /\ ~startswith(k, s_module_list)
                    THEN \E n \in DOMAIN last.state_dict : k = s_module \o <<".">> \o n
                    ELSE k \in DOMAIN last.state_dict

\* every edge of the table has both ends in 0..16
EdgesInRange(skeleton) ==
    \A i \in 1..Len(skeleton) : skeleton[i][1] \in 0..16 /\ skeleton[i][2] \in 0..16

\* C4: every edge of every skeleton table has both ends in 0..16, so
\* print_associations never raises IndexError.
C4_EdgesIndexKeypoints ==
    /\ EdgesInRange(COCO_PERSON_SKELETON)
    /\ EdgesInRange(COCO_PERSON_SKELETON_DOWNUP)
    /\ EdgesInRange(COCO_PERSON_WITH_REDUNDANT_SKELETON)
    /\ EdgesInRange(DENSER_COCO_PERSON_SKELETON)
    /\ EdgesInRange(REDUNDANT_CONNECTIONS)
    /\ EdgesInRange(KINEMATIC_TREE_SKELETON)
    /\ last.op = "main" =>
           /\ last.raised = "none"
           /\ Len(last.printed) = last.number

\* C4 happens: print_associations printed the ends of every limb
C4_Witness ==
    /\ last.op = "main"
    /\ Len(last.printed) = 19
    /\ last.printed[19] = <<s_right \o s_knee, s_right \o s_ankle>>

\* C5: COCO_KEYPOINTS has 17 pairwise distinct names, COCO_PERSON_SIGMAS has
\* one entry per keypoint, and LEFT_INDEX and RIGHT_INDEX are disjoint, hold
\* 8 indices each and together cover every index but 0.
C5_KeypointTables ==
    /\ Len(COCO_KEYPOINTS) = 17
    /\ \A i, j \in 1..Len(COCO_KEYPOINTS) : i # j => COCO_KEYPOINTS[i] # COCO_KEYPOINTS[j]
    /\ Len(COCO_PERSON_SIGMAS) = 17
    /\ Len(COCO_PERSON_SIGMAS) = Len(COCO_KEYPOINTS)
    /\ Range(LEFT_INDEX) \cap Range(RIGHT_INDEX) = {}
    /\ Len(LEFT_INDEX) = 8 /\ Cardinality(Range(LEFT_INDEX)) = 8
    /\ Len(RIGHT_INDEX) = 8 /\ Cardinality(Range(RIGHT_INDEX)) = 8
    /\ Range(LEFT_INDEX) \cup Range(RIGHT_INDEX) = 1..16
    /\ last.op = "main" =>
           /\ Range(last.left_index) \cap Range(last.right_index) = {}
           /\ Range(last.left_index) \cup Range(last.right_index) = 1..16

\* C5 happens: the examination run printed the left and the right indices
C5_Witness ==
    /\ last.op = "main"
    /\ last.left_index = <<1, 3, 5, 7, 9, 11, 13, 15>>
    /\ last.right_index = <<2, 4, 6, 8, 10, 12, 14, 16>>

\* C6: basenet_factory returns a 4-tuple for 'hourglass104' and for
\* 'hourglass4stage', the names its assertion accepts; any other name fails
\* the assertion with '<name> is not implemented.' and builds no network.
C6_AcceptedNamesReturnTuple ==
    last.op = "basenet_factory" =>
        IF last.basenet_name \in {s_hourglass104, s_hourglass4stage}
        THEN last.raised = "none" /\ Len(last.ret) = 4
        ELSE /\ last.raised = "AssertionError"
             /\ last.message = last.basenet_name \o
                    <<" ", "i", "s", " ", "n", "o", "t", " ",
                      "i", "m", "p", "l", "e", "m", "e", "n", "t", "e", "d", ".">>
             /\ last.built = "none"

\* the positions of the entries of the checkpoint that were not dropped and
\* whose remapped name is k
Sources(k) ==
    {i \in 1..Len(LoadedItems) :
        /\ stored_name(LoadedItems[i].key) = k
        /\ ~(InOutputLayer(LoadedItems[i].key) /\ last.drop_layers)}

\* the entry stored under the name k: the last of its sources
StoredEntry(k) ==
    LoadedItems[CHOOSE i \in Sources(k) : \A j \in Sources(k) : j <= i]

\* C7: the dictionary handed to load_state_dict has every key of the model;
\* under a model key it holds the checkpoint tensor stored under that
\* remapped name if there is one, not dropped and of the model's shape, and
\* the model's own tensor otherwise.  With drop_layers no entry whose
\* original key holds 'before_regression' or 'offset' is loaded, and keys the
\* model lacks neither add nor change a parameter.
C7_PassedDictionary ==
    LoadedFile =>
        /\ DOMAIN last.pre_params \subseteq DOMAIN last.passed
        /\ DOMAIN params = DOMAIN last.pre_params
        /\ \A k \in DOMAIN last.pre_params :
            /\ last.passed[k] =
                   IF Sources(k) # {} /\ StoredEntry(k).tensor.shape = last.pre_params[k].shape
                   THEN StoredEntry(k).tensor
                   ELSE last.pre_params[k]
            /\ params[k] = last.passed[k]
            /\ (last.drop_layers
                  /\ \A i \in 1..Len(LoadedItems) :
                        stored_name(LoadedItems[i].key) = k => InOutputLayer(LoadedItems[i].key))
               => params[k] = last.pre_params[k]
            /\ (\A i \in 1..Len(LoadedItems) : stored_name(LoadedItems[i].key) # k)
               => params[k] = last.pre_params[k]

\* C7 happens: with drop_layers, an 'offset' entry that fits the model and
\* would have changed it was skipped, beside an entry the model lacks
C7_Witness ==
    /\ LoadedFile
    /\ last.drop_layers
    /\ \E i \in 1..Len(LoadedItems) :
          LET e == LoadedItems[i]
          IN  /\ contains(s_offset, e.key)
              /\ stored_name(e.key) \in DOMAIN last.pre_params
              /\ e.tensor.shape = last.pre_params[stored_name(e.key)].shape
              /\ e.tensor # last.pre_params[stored_name(e.key)]
    /\ \E i \in 1..Len(LoadedItems) :
          stored_name(LoadedItems[i].key) \notin DOMAIN last.pre_params

\* C7 happens also without drop_layers: of two entries stored under the same
\* name the later one reached the model
C7_WitnessCollision ==
    /\ LoadedFile
    /\ ~last.drop_layers
    /\ \E k \in DOMAIN params :
          /\ Cardinality(Sources(k)) = 2
          /\ params[k] = StoredEntry(k).tensor
          /\ params[k] # last.pre_params[k]

\* C8: save_model followed by load_model with drop_layers = False into a
\* model of the same architecture leaves every parameter equal to the saved
\* parameter of the same name; the saved keys are the plain model's, without
\* the wrapper's prefix 'module.', and the checkpoint holds
\* 'optimizer_state_dict' exactly when an optimizer was given.
C8_SaveLoadRoundTrip ==
    /\ last.op = "save_model" =>
           LET data == disk[last.path].data
           IN  /\ {data.model_state_dict[i].key : i \in 1..Len(data.model_state_dict)}
                      = DOMAIN last.pre_params
               /\ \A i \in 1..Len(data.model_state_dict) :
                      data.model_state_dict[i].tensor
                          = last.pre_params[data.model_state_dict[i].key]
               /\ ("optimizer_state_dict" \in DOMAIN data) <=> last.optimizer_given
    /\ (LoadedFile /\ ~last.drop_layers
           /\ disk[last.ckpt_path].written_by = "save_model") =>
           \A i \in 1..Len(LoadedItems) :
               params[LoadedItems[i].key] = LoadedItems[i].tensor

====
